---- MODULE Spec2Model ----
(***************************************************************************)
(* Render-data facade of Microsoft::Terminal::Core::Terminal               *)
(* (src/cascadia/TerminalCore/terminalrenderdata.cpp): the console lock,   *)
(* the search-highlight store, and the scroll-to-points viewport           *)
(* reconciler.                                                             *)
(***************************************************************************)
EXTENDS Integers, Sequences, FiniteSets, TLC

\* ------------------------------------------------------------------ bounds
\* Largest top row of the mutable viewport (rows above it are scrollback).
MaxViewStart == 2
\* Height, in rows, of the viewport.
ViewHeight == 2
\* Longest highlight sequence handed to SetSearchHighlights.
MaxHighlights == 3
\* Longest highlight sequence handed to SetSearchHighlightFocused.
MaxFocused == 2
\* Number of render threads contending with the mutator.
NumRenderThreads == 2
\* Longest focused highlight handed over line by line.
MaxFocusedLines == 3
\* Rightmost column a pattern interval starts at.
MaxColumn == 1
\* Most intervals held by the pattern interval tree.
MaxIntervals == 2

\* ------------------------------------------------------------------ state
VARIABLES
    mutableViewportTop,      \* _mutableViewport.Top()
    scrollOffset,            \* _scrollOffset
    searchHighlights,        \* _searchHighlights
    searchHighlightFocused,  \* _searchHighlightFocused
    readWriteLock,           \* _readWriteLock: the set of threads holding it
    pc,                      \* per thread: "idle", "waiting", "locked", "writing"
    seen,                    \* per thread: first and latest GetSearchHighlights result
                             \* of its critical section (one entry after a single read)
    last,                    \* the last call that scrolls or returns a value: arguments,
                             \* prior offset, result, steps in program order
    patternIntervalTree,     \* _patternIntervalTree: the intervals, in stored order
    selectionAnchor,         \* the point last handed to SetSelectionAnchor
    selectionEnd,            \* the point last handed to SetSelectionEnd
    unlockedCall,            \* accessor last invoked by a thread not holding the lock
    assertFailed             \* _assertLocked() tripped (debug build aborts)

lockVars == <<readWriteLock, pc>>
viewVars == <<mutableViewportTop, scrollOffset>>
storeVars == <<searchHighlights, searchHighlightFocused>>
patternVars == <<patternIntervalTree>>
selectionVars == <<selectionAnchor, selectionEnd>>
contractVars == <<unlockedCall, assertFailed>>
vars == <<mutableViewportTop, scrollOffset, searchHighlights, searchHighlightFocused,
          readWriteLock, pc, seen, last, patternIntervalTree, selectionAnchor,
          selectionEnd, unlockedCall, assertFailed>>

\* ------------------------------------------------------------------ threads
Mutator == 0
RenderThreads == 1..NumRenderThreads
Threads == {Mutator} \cup RenderThreads

\* ------------------------------------------------------------------ geometry
Max(a, b) == IF a > b THEN a ELSE b

\* Top row of the mutable viewport.
ViewStartIndex(top) == top

\* Bottom row (inclusive) of the mutable viewport; the written text ends here.
ViewEndIndex(top) == top + ViewHeight - 1

\* Top row of the visible viewport.
VisibleStartIndex(off, top) == ViewStartIndex(top) - off

\* Bottom row (inclusive) of the visible viewport.
VisibleEndIndex(off, top) == ViewEndIndex(top) - off

\* The visible viewport, an inclusive rectangle of buffer rows.
GetVisibleViewport(off, top) ==
    [left |-> 0, top |-> VisibleStartIndex(off, top),
     right |-> 0, bottom |-> VisibleEndIndex(off, top)]

Top(viewport) == viewport.top
BottomExclusive(viewport) == viewport.bottom + 1

\* Viewport Terminal::GetViewport()
GetViewport(off, top) == GetVisibleViewport(off, top)

\* ------------------------------------------------------------------ inputs
\* Buffer rows that hold text: row 0 up to the bottom of the mutable viewport.
Rows(top) == 0..ViewEndIndex(top)

Points(top) == [x : {0}, y : Rows(top)]

\* til::inclusive_rect of a search highlight: the regions are handed over line
\* by line, one row each.
LineRects(top) ==
    {r \in [left : {0}, top : Rows(top), right : {0}, bottom : Rows(top)] :
        r.bottom = r.top}

\* til::inclusive_rect of a focused highlight: one or two rows tall.
Rects(top) ==
    {r \in [left : {0}, top : Rows(top), right : {0}, bottom : Rows(top)] :
        r.bottom \in {r.top, r.top + 1}}

IsSortedByTop(hl) == \A i \in 1..(Len(hl) - 1) : hl[i].top <= hl[i + 1].top

\* The sequences over rects, up to n long, sorted by top row: callers hand
\* over highlights top to bottom (Terminal does not re-sort).
RECURSIVE SortedSeqsUpTo(_, _)
SortedSeqsUpTo(rects, n) ==
    IF n = 0 THEN {<<>>}
    ELSE LET shorter == SortedSeqsUpTo(rects, n - 1)
         IN shorter \cup
            {Append(hl, r) : <<hl, r>> \in
                {p \in shorter \X rects :
                    /\ Len(p[1]) = n - 1
                    /\ IsSortedByTop(Append(p[1], p[2]))}}

\* Arguments of SetSearchHighlights.
HighlightSets(top) == SortedSeqsUpTo(LineRects(top), MaxHighlights)

\* Highlights of a search with at most one match line.
SingleHighlights(top) == {<<>>} \cup {<<rect>> : rect \in LineRects(top)}

\* Highlights of a match of one or two lines, or of none.
ShortHighlights(top) ==
    SingleHighlights(top) \cup
    {<<first, second>> : <<first, second>> \in
        {p \in LineRects(top) \X LineRects(top) : p[1].top <= p[2].top}}

\* Arguments of SetSearchHighlightFocused.
FocusedSets(top) == SortedSeqsUpTo(Rects(top), MaxFocused)

\* Arguments of SetSearchHighlightFocused for a match that spans several
\* lines: one rectangle per line.
FocusedLineSets(top) == SortedSeqsUpTo(LineRects(top), MaxFocusedLines)

\* Outcomes of reading the vector while another thread move-assigns it.
TornReads(top) == UNION {[1..n -> LineRects(top)] : n \in 0..MaxHighlights}

\* No point: the coordinates of a call that takes none.
NoPoint == [x |-> 0 - 1, y |-> 0 - 1]

\* No scroll-related call made yet.
NoCall ==
    [op |-> "none", coordStart |-> NoPoint, coordEnd |-> NoPoint, highlight |-> <<>>,
     prevOffset |-> 0, ret |-> 0, notes |-> <<>>, events |-> <<>>, repeat |-> FALSE]

\* ------------------------------------------------------------------ highlight store
\* std::lower_bound with comp(rect, value) == rect.top < value; 1-based position.
RECURSIVE LowerBound(_, _, _, _)
LowerBound(hl, first, count, value) ==
    IF count <= 0 THEN first
    ELSE LET step == count \div 2
             it == first + step
         IN IF hl[it].top < value
            THEN LowerBound(hl, it + 1, count - (step + 1), value)
            ELSE LowerBound(hl, first, step, value)

\* std::upper_bound with comp(value, rect) == value < rect.top; 1-based position.
RECURSIVE UpperBound(_, _, _, _)
UpperBound(hl, first, count, value) ==
    IF count <= 0 THEN first
    ELSE LET step == count \div 2
             it == first + step
         IN IF ~(value < hl[it].top)
            THEN UpperBound(hl, it + 1, count - (step + 1), value)
            ELSE UpperBound(hl, first, step, value)

\* The vector { lowerIt, upperIt } GetSearchHighlights returns.
VisibleHighlights(hl, viewport) ==
    LET lowerIt == LowerBound(hl, 1, Len(hl), Top(viewport))
        upperIt == UpperBound(hl, 1, Len(hl), BottomExclusive(viewport))
    IN SubSeq(hl, lowerIt, upperIt - 1)

\* ------------------------------------------------------------------ lock
\* _assertLocked(): the calling thread owns _readWriteLock.
IsLockedBy(t) == t \in readWriteLock

\* lock() that does not wait for the holder.
LockAvailable_NoWait(t) == TRUE

\* lock() with a shared mode: render readers do not exclude each other.
LockAvailable_SharedReaders(t) ==
    \/ readWriteLock = {}
    \/ t \in RenderThreads /\ readWriteLock \subseteq RenderThreads

\* _readWriteLock.lock() returns only once no thread holds the lock.
LockAvailable(t) == readWriteLock = {}

\* Terminal::LockConsole: the call is made and blocks in lock().
LockConsole(t) ==
    /\ ~assertFailed
    /\ pc[t] = "idle"
    /\ pc' = [pc EXCEPT ![t] = "waiting"]
    /\ UNCHANGED <<patternVars, selectionVars,
                   viewVars, storeVars, readWriteLock, seen, last, contractVars>>

\* Terminal::LockConsole: lock() obtains the lock and the call returns.
LockConsoleReturn(t) ==
    /\ ~assertFailed
    /\ pc[t] = "waiting"
    /\ LockAvailable(t)
    /\ readWriteLock' = readWriteLock \cup {t}
    /\ pc' = [pc EXCEPT ![t] = "locked"]
    /\ UNCHANGED <<patternVars, selectionVars, viewVars, storeVars, seen, last, contractVars>>

\* UnlockConsole that returns without releasing _readWriteLock.
UnlockConsole_KeepsLock(t) ==
    /\ ~assertFailed
    /\ pc[t] = "locked"
    /\ pc' = [pc EXCEPT ![t] = "idle"]
    /\ seen' = [seen EXCEPT ![t] = <<>>]
    /\ UNCHANGED <<patternVars, selectionVars,
                   viewVars, storeVars, readWriteLock, last, contractVars>>

\* Terminal::UnlockConsole
UnlockConsole(t) ==
    /\ ~assertFailed
    /\ pc[t] = "locked"
    /\ readWriteLock' = readWriteLock \ {t}
    /\ pc' = [pc EXCEPT ![t] = "idle"]
    /\ seen' = [seen EXCEPT ![t] = <<>>]
    /\ UNCHANGED <<patternVars, selectionVars, viewVars, storeVars, last, contractVars>>

\* A call of an accessor by thread t: notes a call made without the lock.
NoteCall(t, f) == unlockedCall' = IF IsLockedBy(t) THEN unlockedCall ELSE f

\* An accessor whose _assertLocked() trips: the debug build aborts there.
AssertTrips(t, f) ==
    /\ ~IsLockedBy(t)
    /\ assertFailed' = TRUE
    /\ unlockedCall' = f
    /\ UNCHANGED <<patternVars, selectionVars, viewVars, storeVars, lockVars, seen, last>>

\* The accessors whose body calls _assertLocked().
AssertsLocked(f) ==
    f \in {"GetFontInfo", "SetFontInfo", "GetPatternId", "GetSearchHighlights",
           "SetSearchHighlights", "SetSearchHighlightFocused",
           "GetSearchHighlightFocused", "GetConsoleTitle", "IsUiaDataInitialized"}

\* Accessors of shared render state modelled by their lock contract alone: the
\* viewport, cursor, selection, pattern, font and title getters and setters.
PlainAccessors ==
    {"GetViewport", "GetTextBufferEndPosition", "GetFontInfo", "SetFontInfo",
     "GetCursorPosition", "IsCursorVisible", "IsCursorOn", "GetCursorHeight",
     "GetCursorStyle", "IsCursorDoubleWidth", "GetPatternId", "GetSelectionRects",
     "GetSearchHighlightFocused", "GetConsoleTitle", "IsUiaDataInitialized"}

\* A call of one of the plain accessors by thread t.
Accessor(t, f) ==
    /\ ~assertFailed
    /\ pc[t] \in {"idle", "locked"}
    /\ IF AssertsLocked(f) /\ ~IsLockedBy(t)
       THEN AssertTrips(t, f)
       ELSE /\ NoteCall(t, f)
            /\ UNCHANGED <<patternVars, selectionVars,
                           viewVars, storeVars, lockVars, seen, last, assertFailed>>

\* ------------------------------------------------------------------ pattern index
\* til::point ordering: by row, then by column.
PointLE(a, b) == a.y < b.y \/ (a.y = b.y /\ a.x <= b.x)

\* Rows and columns that carry patterns, and the pattern ids.
PatternRows == {0, 1}
Columns == 0..MaxColumn
PatternIds == {1, 2}

\* Locations GetPatternId is asked about.
Locations == [x : Columns, y : PatternRows]

\* A pattern interval: a run of cells on one row, its stop one past the last
\* cell, tagged with the id of the pattern that matched.
Intervals ==
    {i \in [start : Locations, stop : [x : 1..(MaxColumn + 1), y : PatternRows],
            value : PatternIds] :
        /\ i.start.y = i.stop.y
        /\ i.start.x < i.stop.x}

IsSortedByStart(tree) ==
    \A k \in 1..(Len(tree) - 1) : PointLE(tree[k].start, tree[k + 1].start)

\* The interval trees of up to n intervals; the tree keeps them sorted by start.
RECURSIVE TreesUpTo(_)
TreesUpTo(n) ==
    IF n = 0 THEN {<<>>}
    ELSE LET smaller == TreesUpTo(n - 1)
         IN smaller \cup
            {Append(tree, i) : <<tree, i>> \in
                {p \in smaller \X Intervals :
                    /\ Len(p[1]) = n - 1
                    /\ IsSortedByStart(Append(p[1], p[2]))}}

IntervalTrees == TreesUpTo(MaxIntervals)

\* IntervalTree::findOverlapping(start, stop): the intervals that reach start
\* or beyond and begin at stop or before.
FindOverlapping(tree, start, stop) ==
    LET Overlaps(i) == PointLE(start, i.stop) /\ PointLE(i.start, stop)
    IN SelectSeq(tree, Overlaps)

\* Terminal::ClearPatternTree: the text changed, the tree is dropped.  A result
\* obtained from the dropped tree says nothing about the next one.
ClearPatternTree(t) ==
    /\ ~assertFailed
    /\ pc[t] = "locked"
    /\ patternIntervalTree # <<>>
    /\ patternIntervalTree' = <<>>
    /\ last' = NoCall
    /\ UNCHANGED <<selectionVars, viewVars, storeVars, lockVars, seen, contractVars>>

\* Terminal::UpdatePatternsUnderLock: the dropped tree is rebuilt wholesale.
UpdatePatterns(t, tree) ==
    /\ ~assertFailed
    /\ pc[t] = "locked"
    /\ patternIntervalTree = <<>>
    /\ patternIntervalTree' = tree
    /\ last' = NoCall
    /\ UNCHANGED <<selectionVars, viewVars, storeVars, lockVars, seen, contractVars>>

\* GetPatternId asking for the overlap with the location alone, not with the
\* cell that starts there.
GetPatternIdResult_SamePoint(tree, location) ==
    LET intervals == FindOverlapping(tree, location, location)
    IN IF Len(intervals) = 0
       THEN <<>>
       ELSE [k \in 1..Len(intervals) |-> intervals[k].value]

\* The vector Terminal::GetPatternId returns.
GetPatternIdResult(tree, location) ==
    LET intervals ==
            FindOverlapping(tree, [x |-> location.x + 1, y |-> location.y], location)
    IN IF Len(intervals) = 0
       THEN <<>>
       ELSE [k \in 1..Len(intervals) |-> intervals[k].value]

\* Terminal::GetPatternId
GetPatternId(t, location) ==
    /\ ~assertFailed
    /\ pc[t] \in {"idle", "locked"}
    /\ \/ AssertTrips(t, "GetPatternId")
       \/ /\ IsLockedBy(t)
          /\ last' = [op |-> "GetPatternId", coordStart |-> location,
                      coordEnd |-> NoPoint, highlight |-> <<>>,
                      prevOffset |-> scrollOffset,
                      ret |-> GetPatternIdResult(patternIntervalTree, location),
                      notes |-> <<>>, events |-> <<>>, repeat |-> FALSE]
          /\ UNCHANGED <<patternVars, selectionVars, viewVars, storeVars, lockVars,
                         seen, contractVars>>

\* ------------------------------------------------------------------ SetSearchHighlights
\* Terminal::SetSearchHighlights: the assertion, then the move-assignment begins.
SetSearchHighlights(t, highlights) ==
    /\ ~assertFailed
    /\ pc[t] \in {"idle", "locked"}
    /\ \/ AssertTrips(t, "SetSearchHighlights")
       \/ /\ IsLockedBy(t)
          /\ searchHighlights' = highlights
          /\ pc' = [pc EXCEPT ![t] = "writing"]
          /\ UNCHANGED <<patternVars, selectionVars,
                         viewVars, searchHighlightFocused, readWriteLock, seen, last,
                         contractVars>>

\* Terminal::SetSearchHighlights: the move-assignment is complete, the call returns.
SetSearchHighlightsReturn(t) ==
    /\ ~assertFailed
    /\ pc[t] = "writing"
    /\ pc' = [pc EXCEPT ![t] = "locked"]
    /\ UNCHANGED <<patternVars, selectionVars,
                   viewVars, storeVars, readWriteLock, seen, last, contractVars>>

\* ------------------------------------------------------------------ GetSearchHighlights
\* Terminal::GetSearchHighlights
GetSearchHighlights(t) ==
    /\ ~assertFailed
    /\ pc[t] \in {"idle", "locked"}
    /\ \/ AssertTrips(t, "GetSearchHighlights")
       \/ /\ IsLockedBy(t)
          /\ \E result \in
                 (IF \E u \in Threads \ {t} : pc[u] = "writing"
                  THEN TornReads(mutableViewportTop)
                  ELSE {VisibleHighlights(searchHighlights,
                            GetVisibleViewport(scrollOffset, mutableViewportTop))}) :
                 seen' = [seen EXCEPT ![t] = IF seen[t] = <<>>
                                             THEN <<result>>
                                             ELSE <<seen[t][1], result>>]
          /\ UNCHANGED <<patternVars, selectionVars,
                         viewVars, storeVars, lockVars, last, contractVars>>

\* ------------------------------------------------------------------ viewport reconciler
\* One step of a call that an observer can tell apart, with the _scrollOffset
\* in force when it happens.
Event(ev, off) == [ev |-> ev, offset |-> off]

\* The steps of one _ScrollToPoints call in program order: the assignments to
\* _scrollOffset, then TriggerScroll() and _NotifyScrollEvent() when
\* notifyScrollChange is set, then the return of _scrollOffset.
ScrollSteps(assigned, notifyScrollChange, ret) ==
    [i \in 1..Len(assigned) |-> Event("assign", assigned[i])]
    \o (IF notifyScrollChange
        THEN <<Event("TriggerScroll", ret), Event("NotifyScrollEvent", ret)>>
        ELSE <<>>)
    \o <<Event("return", ret)>>

\* ScrollToPoints with the visible-bottom test off by one (>= for >).
ScrollToPoints_EndInclusive(off, top, coordStart, coordEnd) ==
    LET above == coordStart.y < VisibleStartIndex(off, top)
        below == ~above /\ coordEnd.y >= VisibleEndIndex(off, top)
        newOffset ==
            IF above THEN ViewStartIndex(top) - coordStart.y
            ELSE IF below THEN Max(0, ViewStartIndex(top) - coordStart.y)
            ELSE off
        notifyScrollChange == above \/ below
    IN [scrollOffset |-> newOffset,
        notes |-> IF notifyScrollChange
                  THEN <<"TriggerScroll", "NotifyScrollEvent">>
                  ELSE <<>>,
        events |-> ScrollSteps((IF above THEN <<newOffset>> ELSE <<>>)
                               \o (IF below THEN <<newOffset>> ELSE <<>>),
                               notifyScrollChange, newOffset),
        ret |-> newOffset]

\* ScrollToPoints measuring the new offset from the visible top, not the mutable one.
ScrollToPoints_FromVisibleTop(off, top, coordStart, coordEnd) ==
    LET above == coordStart.y < VisibleStartIndex(off, top)
        below == ~above /\ coordEnd.y > VisibleEndIndex(off, top)
        newOffset ==
            IF above THEN VisibleStartIndex(off, top) - coordStart.y
            ELSE IF below THEN Max(0, ViewStartIndex(top) - coordStart.y)
            ELSE off
        notifyScrollChange == above \/ below
    IN [scrollOffset |-> newOffset,
        notes |-> IF notifyScrollChange
                  THEN <<"TriggerScroll", "NotifyScrollEvent">>
                  ELSE <<>>,
        events |-> ScrollSteps((IF above THEN <<newOffset>> ELSE <<>>)
                               \o (IF below THEN <<newOffset>> ELSE <<>>),
                               notifyScrollChange, newOffset),
        ret |-> newOffset]

\* ScrollToPoints without the std::max(0, ...) clamp of the second branch.
ScrollToPoints_NoClamp(off, top, coordStart, coordEnd) ==
    LET above == coordStart.y < VisibleStartIndex(off, top)
        below == ~above /\ coordEnd.y > VisibleEndIndex(off, top)
        newOffset ==
            IF above THEN ViewStartIndex(top) - coordStart.y
            ELSE IF below THEN ViewStartIndex(top) - coordStart.y
            ELSE off
        notifyScrollChange == above \/ below
    IN [scrollOffset |-> newOffset,
        notes |-> IF notifyScrollChange
                  THEN <<"TriggerScroll", "NotifyScrollEvent">>
                  ELSE <<>>,
        events |-> ScrollSteps((IF above THEN <<newOffset>> ELSE <<>>)
                               \o (IF below THEN <<newOffset>> ELSE <<>>),
                               notifyScrollChange, newOffset),
        ret |-> newOffset]

\* ScrollToPoints whose second branch puts the end row at the visible bottom.
ScrollToPoints_EndToBottom(off, top, coordStart, coordEnd) ==
    LET above == coordStart.y < VisibleStartIndex(off, top)
        below == ~above /\ coordEnd.y > VisibleEndIndex(off, top)
        newOffset ==
            IF above THEN ViewStartIndex(top) - coordStart.y
            ELSE IF below THEN Max(0, ViewEndIndex(top) - coordEnd.y)
            ELSE off
        notifyScrollChange == above \/ below
    IN [scrollOffset |-> newOffset,
        notes |-> IF notifyScrollChange
                  THEN <<"TriggerScroll", "NotifyScrollEvent">>
                  ELSE <<>>,
        events |-> ScrollSteps((IF above THEN <<newOffset>> ELSE <<>>)
                               \o (IF below THEN <<newOffset>> ELSE <<>>),
                               notifyScrollChange, newOffset),
        ret |-> newOffset]

\* ScrollToPoints measuring the first branch from the mutable viewport's bottom.
ScrollToPoints_FromViewEnd(off, top, coordStart, coordEnd) ==
    LET above == coordStart.y < VisibleStartIndex(off, top)
        below == ~above /\ coordEnd.y > VisibleEndIndex(off, top)
        newOffset ==
            IF above THEN ViewEndIndex(top) - coordStart.y
            ELSE IF below THEN Max(0, ViewStartIndex(top) - coordStart.y)
            ELSE off
        notifyScrollChange == above \/ below
    IN [scrollOffset |-> newOffset,
        notes |-> IF notifyScrollChange
                  THEN <<"TriggerScroll", "NotifyScrollEvent">>
                  ELSE <<>>,
        events |-> ScrollSteps((IF above THEN <<newOffset>> ELSE <<>>)
                               \o (IF below THEN <<newOffset>> ELSE <<>>),
                               notifyScrollChange, newOffset),
        ret |-> newOffset]

\* ScrollToPoints notifying only when the offset it assigned differs from the
\* one before.
ScrollToPoints_NotifyOnChange(off, top, coordStart, coordEnd) ==
    LET above == coordStart.y < VisibleStartIndex(off, top)
        below == ~above /\ coordEnd.y > VisibleEndIndex(off, top)
        newOffset ==
            IF above THEN ViewStartIndex(top) - coordStart.y
            ELSE IF below THEN Max(0, ViewStartIndex(top) - coordStart.y)
            ELSE off
        notifyScrollChange == newOffset # off
    IN [scrollOffset |-> newOffset,
        notes |-> IF notifyScrollChange
                  THEN <<"TriggerScroll", "NotifyScrollEvent">>
                  ELSE <<>>,
        events |-> ScrollSteps((IF above THEN <<newOffset>> ELSE <<>>)
                               \o (IF below THEN <<newOffset>> ELSE <<>>),
                               notifyScrollChange, newOffset),
        ret |-> newOffset]

\* Terminal::_ScrollToPoints: the new _scrollOffset, the notifications raised
\* (in order), the steps of the call and the value returned.
ScrollToPoints(off, top, coordStart, coordEnd) ==
    LET above == coordStart.y < VisibleStartIndex(off, top)
        below == ~above /\ coordEnd.y > VisibleEndIndex(off, top)
        newOffset ==
            IF above THEN ViewStartIndex(top) - coordStart.y
            ELSE IF below THEN Max(0, ViewStartIndex(top) - coordStart.y)
            ELSE off
        notifyScrollChange == above \/ below
    IN [scrollOffset |-> newOffset,
        notes |-> IF notifyScrollChange
                  THEN <<"TriggerScroll", "NotifyScrollEvent">>
                  ELSE <<>>,
        events |-> ScrollSteps((IF above THEN <<newOffset>> ELSE <<>>)
                               \o (IF below THEN <<newOffset>> ELSE <<>>),
                               notifyScrollChange, newOffset),
        ret |-> newOffset]

\* A call of Terminal::_ScrollToPoints by thread t.
ScrollToRange(t, coordStart, coordEnd) ==
    /\ ~assertFailed
    /\ pc[t] \in {"idle", "locked"}
    /\ LET r == ScrollToPoints(scrollOffset, mutableViewportTop, coordStart, coordEnd)
       IN /\ scrollOffset' = r.scrollOffset
          /\ last' = [op |-> "ScrollToPoints", coordStart |-> coordStart,
                      coordEnd |-> coordEnd, highlight |-> <<>>,
                      prevOffset |-> scrollOffset, ret |-> r.ret, notes |-> r.notes,
                      events |-> r.events,
                      repeat |-> /\ last.op = "ScrollToPoints"
                                 /\ last.coordStart = coordStart
                                 /\ last.coordEnd = coordEnd]
    /\ NoteCall(t, "ScrollToPoints")
    /\ UNCHANGED <<patternVars, selectionVars,
                   mutableViewportTop, storeVars, lockVars, seen, assertFailed>>

\* FocusScroll taking the end row from the last rectangle's top, not its bottom.
FocusScroll_TopOfLast(off, top, highlight) ==
    IF highlight # <<>>
    THEN LET highlightStart == [x |-> highlight[1].left, y |-> highlight[1].top]
             highlightEnd == [x |-> highlight[Len(highlight)].right,
                              y |-> highlight[Len(highlight)].top]
         IN ScrollToPoints(off, top, highlightStart, highlightEnd)
    ELSE [scrollOffset |-> off, notes |-> <<>>, events |-> <<>>, ret |-> off]

\* FocusScroll without the empty() test: an empty highlight scrolls to the origin.
FocusScroll_NoEmptyCheck(off, top, highlight) ==
    LET highlightStart == IF highlight # <<>>
                          THEN [x |-> highlight[1].left, y |-> highlight[1].top]
                          ELSE [x |-> 0, y |-> 0]
        highlightEnd == IF highlight # <<>>
                        THEN [x |-> highlight[Len(highlight)].right,
                              y |-> highlight[Len(highlight)].bottom]
                        ELSE [x |-> 0, y |-> 0]
    IN ScrollToPoints(off, top, highlightStart, highlightEnd)

\* FocusScroll bringing only the first rectangle into view.
FocusScroll_FirstRectOnly(off, top, highlight) ==
    IF highlight # <<>>
    THEN LET highlightStart == [x |-> highlight[1].left, y |-> highlight[1].top]
             highlightEnd == [x |-> highlight[1].right, y |-> highlight[1].bottom]
         IN ScrollToPoints(off, top, highlightStart, highlightEnd)
    ELSE [scrollOffset |-> off, notes |-> <<>>, events |-> <<>>, ret |-> off]

\* The scroll step of Terminal::SetSearchHighlightFocused: a non-empty highlight
\* is brought into view, from the first rectangle's top-left to the last one's
\* bottom-right.
FocusScroll(off, top, highlight) ==
    IF highlight # <<>>
    THEN LET highlightStart == [x |-> highlight[1].left, y |-> highlight[1].top]
             highlightEnd == [x |-> highlight[Len(highlight)].right,
                              y |-> highlight[Len(highlight)].bottom]
         IN ScrollToPoints(off, top, highlightStart, highlightEnd)
    ELSE [scrollOffset |-> off, notes |-> <<>>, events |-> <<>>, ret |-> off]

\* SetSearchHighlightFocused that stores the highlight only when it scrolled.
SetSearchHighlightFocused_StoreOnScroll(t, highlight) ==
    /\ ~assertFailed
    /\ pc[t] \in {"idle", "locked"}
    /\ \/ AssertTrips(t, "SetSearchHighlightFocused")
       \/ /\ IsLockedBy(t)
          /\ LET r == FocusScroll(scrollOffset, mutableViewportTop, highlight)
             IN /\ scrollOffset' = r.scrollOffset
                /\ last' = [op |-> "SetSearchHighlightFocused",
                            coordStart |-> NoPoint, coordEnd |-> NoPoint,
                            highlight |-> highlight,
                            prevOffset |-> scrollOffset, ret |-> r.ret, notes |-> r.notes,
                            events |-> r.events \o <<Event("store", r.scrollOffset)>>,
                            repeat |-> FALSE]
                /\ searchHighlightFocused' = IF r.notes # <<>>
                                             THEN highlight
                                             ELSE searchHighlightFocused
          /\ UNCHANGED <<patternVars, selectionVars,
                         mutableViewportTop, searchHighlights, lockVars, seen,
                         contractVars>>

\* Terminal::SetSearchHighlightFocused
SetSearchHighlightFocused(t, highlight) ==
    /\ ~assertFailed
    /\ pc[t] \in {"idle", "locked"}
    /\ \/ AssertTrips(t, "SetSearchHighlightFocused")
       \/ /\ IsLockedBy(t)
          /\ LET r == FocusScroll(scrollOffset, mutableViewportTop, highlight)
             IN /\ scrollOffset' = r.scrollOffset
                /\ last' = [op |-> "SetSearchHighlightFocused",
                            coordStart |-> NoPoint, coordEnd |-> NoPoint,
                            highlight |-> highlight,
                            prevOffset |-> scrollOffset, ret |-> r.ret, notes |-> r.notes,
                            events |-> r.events \o <<Event("store", r.scrollOffset)>>,
                            repeat |-> FALSE]
          /\ searchHighlightFocused' = highlight
          /\ UNCHANGED <<patternVars, selectionVars,
                         mutableViewportTop, searchHighlights, lockVars, seen,
                         contractVars>>

\* Terminal::GetSearchHighlightFocused
GetSearchHighlightFocused(t) ==
    /\ ~assertFailed
    /\ pc[t] \in {"idle", "locked"}
    /\ \/ AssertTrips(t, "GetSearchHighlightFocused")
       \/ /\ IsLockedBy(t)
          /\ last' = [op |-> "GetSearchHighlightFocused", coordStart |-> NoPoint,
                      coordEnd |-> NoPoint, highlight |-> <<>>,
                      prevOffset |-> scrollOffset, ret |-> searchHighlightFocused,
                      notes |-> <<>>, events |-> <<>>, repeat |-> FALSE]
          /\ UNCHANGED <<patternVars, selectionVars, viewVars, storeVars, lockVars,
                         seen, contractVars>>

\* ------------------------------------------------------------------ selection
\* Points of a region to select: any cell of the rows that hold text.
RegionPoints(top) == [x : Columns, y : Rows(top)]

\* NewRegion converting with the scroll offset from before the scroll step.
NewRegion_PriorOffset(off, top, coordStart, coordEnd) ==
    LET r == ScrollToPoints(off, top, coordStart, coordEnd)
    IN [scroll |-> r,
        newCoordStart |-> [x |-> coordStart.x, y |-> coordStart.y - off],
        newCoordEnd |-> [x |-> coordEnd.x, y |-> coordEnd.y - off]]

\* Terminal::SelectNewRegion up to the SetSelection calls: the scroll step and
\* the two points made relative to the offset it returns.
NewRegion(off, top, coordStart, coordEnd) ==
    LET r == ScrollToPoints(off, top, coordStart, coordEnd)
        newScrollOffset == r.ret
    IN [scroll |-> r,
        newCoordStart |-> [x |-> coordStart.x, y |-> coordStart.y - newScrollOffset],
        newCoordEnd |-> [x |-> coordEnd.x, y |-> coordEnd.y - newScrollOffset]]

\* Terminal::SelectNewRegion
SelectNewRegion(t, coordStart, coordEnd) ==
    /\ ~assertFailed
    /\ pc[t] \in {"idle", "locked"}
    /\ LET n == NewRegion(scrollOffset, mutableViewportTop, coordStart, coordEnd)
       IN /\ scrollOffset' = n.scroll.scrollOffset
          /\ selectionAnchor' = n.newCoordStart
          /\ selectionEnd' = n.newCoordEnd
          /\ last' = [op |-> "SelectNewRegion", coordStart |-> coordStart,
                      coordEnd |-> coordEnd, highlight |-> <<>>,
                      prevOffset |-> scrollOffset, ret |-> n.scroll.ret,
                      notes |-> n.scroll.notes,
                      events |-> n.scroll.events
                                 \o <<Event("SetSelectionAnchor", n.scroll.scrollOffset),
                                      Event("SetSelectionEnd", n.scroll.scrollOffset)>>,
                      repeat |-> FALSE]
    /\ NoteCall(t, "SelectNewRegion")
    /\ UNCHANGED <<patternVars, mutableViewportTop, storeVars, lockVars, seen,
                   assertFailed>>

\* Terminal::_GetSelectionRects: the selection line by line, one rectangle per
\* row from the anchor's row to the end's row; none without a selection.
SelectionRects(anchor, end) ==
    IF anchor = NoPoint
    THEN <<>>
    ELSE LET first == IF anchor.y <= end.y THEN anchor ELSE end
             final == IF anchor.y <= end.y THEN end ELSE anchor
         IN [k \in 1..(final.y - first.y + 1) |->
                [left |-> first.x, top |-> first.y + k - 1,
                 right |-> final.x, bottom |-> first.y + k - 1]]

\* Viewport::FromInclusive
FromInclusive(rect) ==
    [left |-> rect.left, top |-> rect.top, right |-> rect.right, bottom |-> rect.bottom]

\* GetSelectionRects handing back what it had built when the exception came.
GetSelectionRectsResult_Partial(lineRects, throws, built) ==
    [result |-> [k \in 1..(IF throws THEN built ELSE Len(lineRects)) |->
                    FromInclusive(lineRects[k])],
     ret |-> [k \in 1..(IF throws THEN built ELSE Len(lineRects)) |->
                 FromInclusive(lineRects[k])],
     notes |-> IF throws THEN <<"LOG_CAUGHT_EXCEPTION">> ELSE <<>>]

\* Terminal::GetSelectionRects: result as built when the try block ends (by the
\* return, or by an exception after `built` rectangles), and what is returned.
GetSelectionRectsResult(lineRects, throws, built) ==
    [result |-> [k \in 1..(IF throws THEN built ELSE Len(lineRects)) |->
                    FromInclusive(lineRects[k])],
     ret |-> IF throws
             THEN <<>>
             ELSE [k \in 1..Len(lineRects) |-> FromInclusive(lineRects[k])],
     notes |-> IF throws THEN <<"LOG_CAUGHT_EXCEPTION">> ELSE <<>>]

\* Terminal::GetSelectionRects.  _GetSelectionRects() or an emplace_back may
\* throw: `throws` says whether one does, `built` after how many rectangles.
GetSelectionRects(t, throws, built) ==
    /\ ~assertFailed
    /\ pc[t] \in {"idle", "locked"}
    /\ LET lineRects == SelectionRects(selectionAnchor, selectionEnd)
           g == GetSelectionRectsResult(lineRects, throws, built)
       IN /\ built \in 0..Len(lineRects)
          /\ last' = [op |-> "GetSelectionRects", coordStart |-> NoPoint,
                      coordEnd |-> NoPoint, highlight |-> g.result,
                      prevOffset |-> scrollOffset, ret |-> g.ret,
                      notes |-> g.notes, events |-> <<>>, repeat |-> FALSE]
    /\ NoteCall(t, "GetSelectionRects")
    /\ UNCHANGED <<patternVars, selectionVars, viewVars, storeVars, lockVars, seen,
                   assertFailed>>

\* Terminal::GetSearchHighlights when building the returned vector throws: the
\* catch block logs and returns an empty vector.
GetSearchHighlightsCaught(t) ==
    /\ ~assertFailed
    /\ pc[t] \in {"idle", "locked"}
    /\ \/ AssertTrips(t, "GetSearchHighlights")
       \/ /\ IsLockedBy(t)
          /\ seen' = [seen EXCEPT ![t] = IF seen[t] = <<>>
                                         THEN <<<<>>>>
                                         ELSE <<seen[t][1], <<>>>>]
          /\ last' = [op |-> "GetSearchHighlights", coordStart |-> NoPoint,
                      coordEnd |-> NoPoint,
                      highlight |-> VisibleHighlights(searchHighlights,
                                        GetVisibleViewport(scrollOffset,
                                                           mutableViewportTop)),
                      prevOffset |-> scrollOffset, ret |-> <<>>,
                      notes |-> <<"LOG_CAUGHT_EXCEPTION">>, events |-> <<>>,
                      repeat |-> FALSE]
          /\ UNCHANGED <<patternVars, selectionVars, viewVars, storeVars, lockVars,
                         contractVars>>

\* ------------------------------------------------------------------ specification
\* Terminal before any call of this interface: the lock free, no highlights.
\* The mutable viewport's position and the scroll offset are whatever the
\* mutation path (output, user scrolling) left: any offset from 0, the live
\* view, up to the mutable viewport's top row, the start of the scrollback.
Init ==
    /\ mutableViewportTop \in 0..MaxViewStart
    /\ scrollOffset \in 0..mutableViewportTop
    /\ searchHighlights = <<>>
    /\ searchHighlightFocused = <<>>
    /\ readWriteLock = {}
    /\ pc = [t \in Threads |-> "idle"]
    /\ seen = [t \in Threads |-> <<>>]
    /\ last = NoCall
    /\ patternIntervalTree = <<>>
    /\ selectionAnchor = NoPoint
    /\ selectionEnd = NoPoint
    /\ unlockedCall = "none"
    /\ assertFailed = FALSE

\* Threads that bracket every access with LockConsole / UnlockConsole: the
\* mutator replaces the highlights, render passes read them.
Next ==
    \E t \in Threads :
        \/ LockConsole(t)
        \/ LockConsoleReturn(t)
        \/ UnlockConsole(t)
        \/ /\ t = Mutator
           /\ pc[t] = "locked"
           /\ \E highlights \in HighlightSets(mutableViewportTop) :
                  SetSearchHighlights(t, highlights)
        \/ SetSearchHighlightsReturn(t)
        \/ /\ t \in RenderThreads
           /\ pc[t] = "locked"
           /\ GetSearchHighlights(t)

Spec == Init /\ [][Next]_vars

\* The mutator, inside its critical sections, brings ranges into view.
NextScroll ==
    \/ LockConsole(Mutator)
    \/ LockConsoleReturn(Mutator)
    \/ UnlockConsole(Mutator)
    \/ /\ pc[Mutator] = "locked"
       /\ \E coordStart, coordEnd \in Points(mutableViewportTop) :
              ScrollToRange(Mutator, coordStart, coordEnd)

SpecScroll == Init /\ [][NextScroll]_vars

\* The mutator, inside its critical sections, focuses search matches.
NextFocus ==
    \/ LockConsole(Mutator)
    \/ LockConsoleReturn(Mutator)
    \/ UnlockConsole(Mutator)
    \/ /\ pc[Mutator] = "locked"
       /\ \E highlight \in FocusedSets(mutableViewportTop) :
              SetSearchHighlightFocused(Mutator, highlight)

SpecFocus == Init /\ [][NextFocus]_vars

\* The mutator, inside its critical sections, focuses matches that span lines.
NextFocusLines ==
    \/ LockConsole(Mutator)
    \/ LockConsoleReturn(Mutator)
    \/ UnlockConsole(Mutator)
    \/ /\ pc[Mutator] = "locked"
       /\ \E highlight \in FocusedLineSets(mutableViewportTop) :
              SetSearchHighlightFocused(Mutator, highlight)

SpecFocusLines == Init /\ [][NextFocusLines]_vars

\* The mutator, inside one critical section, focuses matches and reads the
\* focused highlight back, with highlight replacements, scrolls to a cell and
\* pattern queries in between.
NextStore ==
    \/ LockConsole(Mutator)
    \/ LockConsoleReturn(Mutator)
    \/ /\ pc[Mutator] = "locked"
       /\ \E highlight \in ShortHighlights(mutableViewportTop) :
              SetSearchHighlightFocused(Mutator, highlight)
    \/ /\ pc[Mutator] = "locked"
       /\ GetSearchHighlightFocused(Mutator)
    \/ /\ pc[Mutator] = "locked"
       /\ \E highlights \in SingleHighlights(mutableViewportTop) :
              SetSearchHighlights(Mutator, highlights)
    \/ SetSearchHighlightsReturn(Mutator)
    \/ /\ pc[Mutator] = "locked"
       /\ \E coord \in Points(mutableViewportTop) :
              ScrollToRange(Mutator, coord, coord)
    \/ /\ pc[Mutator] = "locked"
       /\ \E location \in Locations : GetPatternId(Mutator, location)

SpecStore == Init /\ [][NextStore]_vars

\* The lock alone: every thread takes and releases it, render passes read.
NextLock ==
    \E t \in Threads :
        \/ LockConsole(t)
        \/ LockConsoleReturn(t)
        \/ UnlockConsole(t)
        \/ /\ t \in RenderThreads
           /\ pc[t] = "locked"
           /\ GetSearchHighlights(t)

SpecLock == Init /\ [][NextLock]_vars

\* SpecLock under fair scheduling: a waiter that can take the lock again and
\* again does take it, and a holder does call UnlockConsole.
SpecLockFair ==
    /\ SpecLock
    /\ \A t \in Threads :
           /\ SF_vars(LockConsoleReturn(t))
           /\ SF_vars(UnlockConsole(t))

\* A thread that never takes the lock and calls the accessors all the same.
NextUnlocked ==
    \E t \in RenderThreads :
        \/ \E f \in PlainAccessors : Accessor(t, f)
        \/ \E coordStart, coordEnd \in Points(mutableViewportTop) :
               ScrollToRange(t, coordStart, coordEnd)
        \/ \E highlight \in FocusedSets(mutableViewportTop) :
               SetSearchHighlightFocused(t, highlight)
        \/ \E highlights \in HighlightSets(mutableViewportTop) :
               SetSearchHighlights(t, highlights)
        \/ GetSearchHighlights(t)

SpecUnlocked == Init /\ [][NextUnlocked]_vars

\* The mutator, inside its critical sections, selects regions.
NextSelect ==
    \/ LockConsole(Mutator)
    \/ LockConsoleReturn(Mutator)
    \/ UnlockConsole(Mutator)
    \/ /\ pc[Mutator] = "locked"
       /\ \E coordStart, coordEnd \in RegionPoints(mutableViewportTop) :
              SelectNewRegion(Mutator, coordStart, coordEnd)

SpecSelect == Init /\ [][NextSelect]_vars

\* The mutator, inside its critical sections, brings ranges into view in every
\* way the interface offers: by a plain scroll to any range, by focusing a
\* one-line match, by selecting a single cell.
NextReconcile ==
    \/ LockConsole(Mutator)
    \/ LockConsoleReturn(Mutator)
    \/ UnlockConsole(Mutator)
    \/ /\ pc[Mutator] = "locked"
       /\ \E coordStart, coordEnd \in Points(mutableViewportTop) :
              ScrollToRange(Mutator, coordStart, coordEnd)
    \/ /\ pc[Mutator] = "locked"
       /\ \E highlight \in SingleHighlights(mutableViewportTop) :
              SetSearchHighlightFocused(Mutator, highlight)
    \/ /\ pc[Mutator] = "locked"
       /\ \E coord \in Points(mutableViewportTop) :
              SelectNewRegion(Mutator, coord, coord)

SpecReconcile == Init /\ [][NextReconcile]_vars

\* A thread that selects, replaces the highlights and reads both back while
\* memory is short: the selection read may fail, the highlight read does.
NextFailure ==
    \/ LockConsole(Mutator)
    \/ LockConsoleReturn(Mutator)
    \/ UnlockConsole(Mutator)
    \/ /\ pc[Mutator] = "locked"
       /\ \E coordStart, coordEnd \in Points(mutableViewportTop) :
              SelectNewRegion(Mutator, coordStart, coordEnd)
    \/ /\ pc[Mutator] = "locked"
       /\ \E highlights \in SingleHighlights(mutableViewportTop) :
              SetSearchHighlights(Mutator, highlights)
    \/ SetSearchHighlightsReturn(Mutator)
    \/ /\ pc[Mutator] = "locked"
       /\ \E throws \in BOOLEAN, built \in 0..(ViewEndIndex(MaxViewStart) + 1) :
              GetSelectionRects(Mutator, throws, built)
    \/ /\ pc[Mutator] = "locked"
       /\ GetSearchHighlightsCaught(Mutator)

SpecFailure == Init /\ [][NextFailure]_vars

\* One thread, inside its critical sections, drops and rebuilds the pattern
\* tree and looks locations up.
NextPattern ==
    \/ LockConsole(Mutator)
    \/ LockConsoleReturn(Mutator)
    \/ UnlockConsole(Mutator)
    \/ ClearPatternTree(Mutator)
    \/ /\ pc[Mutator] = "locked"
       /\ patternIntervalTree = <<>>
       /\ \E tree \in IntervalTrees : UpdatePatterns(Mutator, tree)
    \/ /\ pc[Mutator] = "locked"
       /\ \E location \in Locations : GetPatternId(Mutator, location)

SpecPattern == Init /\ [][NextPattern]_vars

\* ------------------------------------------------------------------ properties
\* Rows of the visible viewport before the last scroll-related call.
PrevVisibleTop == mutableViewportTop - last.prevOffset
PrevVisibleBottom == mutableViewportTop + ViewHeight - 1 - last.prevOffset

\* Rows of the visible viewport a viewport query now returns.
NowVisibleRows ==
    LET viewport == GetViewport(scrollOffset, mutableViewportTop)
    IN Top(viewport)..(BottomExclusive(viewport) - 1)

\* The stored rectangles whose top row r satisfies lo <= r < hi, in stored order.
TopsWithin(hl, lo, hi) ==
    LET InRange(r) == lo <= r.top /\ r.top < hi
    IN SelectSeq(hl, InRange)

\* C1: every GetSearchHighlights result of a render pass holding the lock is
\* exactly the stored rectangles whose top row r satisfies T <= r < B, in
\* stored order, T and B the visible viewport's top row and exclusive bottom
\* row; a rectangle whose top row equals B is not returned.
C1_QueryVisibleExact ==
    \A t \in RenderThreads :
        pc[t] = "locked" =>
            \A i \in 1..Len(seen[t]) :
                seen[t][i] = TopsWithin(searchHighlights,
                                        mutableViewportTop - scrollOffset,
                                        mutableViewportTop - scrollOffset + ViewHeight)

\* What the code returns instead: the rectangles with T <= r <= B, the row
\* just below the viewport included.
GetSearchHighlightsIncludesBottomRow ==
    \A t \in RenderThreads :
        pc[t] = "locked" =>
            \A i \in 1..Len(seen[t]) :
                seen[t][i] = TopsWithin(searchHighlights,
                                        mutableViewportTop - scrollOffset,
                                        mutableViewportTop - scrollOffset + ViewHeight + 1)

\* C2: a _ScrollToPoints call whose start row is not above the visible top and
\* whose end row is not below the visible bottom leaves the scroll offset
\* unchanged, returns the prior offset and raises no notification.
C2_VisibleRangeNoScroll ==
    (/\ last.op = "ScrollToPoints"
     /\ last.coordStart.y >= PrevVisibleTop
     /\ last.coordEnd.y <= PrevVisibleBottom)
    => /\ scrollOffset = last.prevOffset
       /\ last.ret = last.prevOffset
       /\ last.notes = <<>>

C2_Witness ==
    /\ last.op = "ScrollToPoints"
    /\ last.coordStart.y >= PrevVisibleTop
    /\ last.coordEnd.y <= PrevVisibleBottom
    /\ last.coordEnd.y = PrevVisibleBottom
    /\ last.prevOffset > 0

\* C3: a _ScrollToPoints call whose start row is strictly above the visible top
\* sets the offset to viewStartRow - start.row, whatever the end row, and the
\* visible top row is then start.row.
C3_AboveScrollsStartToTop ==
    (/\ last.op = "ScrollToPoints"
     /\ last.coordStart.y < PrevVisibleTop)
    => /\ scrollOffset = mutableViewportTop - last.coordStart.y
       /\ Top(GetViewport(scrollOffset, mutableViewportTop)) = last.coordStart.y

C3_Witness ==
    /\ last.op = "ScrollToPoints"
    /\ last.coordStart.y < PrevVisibleTop
    /\ last.coordEnd.y > PrevVisibleBottom
    /\ last.prevOffset > 0

\* C4: a _ScrollToPoints call whose start row is not above the visible top and
\* whose end row is strictly below the visible bottom sets the offset to
\* max(0, viewStartRow - start.row), which is never negative.
C4_BelowClampsAtZero ==
    (/\ last.op = "ScrollToPoints"
     /\ last.coordStart.y >= PrevVisibleTop
     /\ last.coordEnd.y > PrevVisibleBottom)
    => /\ scrollOffset = Max(0, mutableViewportTop - last.coordStart.y)
       /\ scrollOffset >= 0

C4_Witness ==
    /\ last.op = "ScrollToPoints"
    /\ last.coordStart.y >= PrevVisibleTop
    /\ last.coordEnd.y > PrevVisibleBottom
    /\ last.coordStart.y > mutableViewportTop
    /\ scrollOffset = 0

\* The last call was SetSearchHighlightFocused with a non-empty highlight whose
\* bounding range was not entirely inside the visible viewport.
FocusedOutsideViewport ==
    /\ last.op = "SetSearchHighlightFocused"
    /\ last.highlight # <<>>
    /\ \/ last.highlight[1].top < PrevVisibleTop
       \/ last.highlight[Len(last.highlight)].bottom > PrevVisibleBottom

FocusedRangeRows ==
    last.highlight[1].top..last.highlight[Len(last.highlight)].bottom

\* C5 as stated: after SetSearchHighlightFocused with a non-empty highlight
\* whose bounding range lay outside the viewport, the visible viewport contains
\* every row of the range, first rectangle's top to last rectangle's bottom.
C5_FocusedRangeVisible ==
    FocusedOutsideViewport => FocusedRangeRows \subseteq NowVisibleRows

\* C5 amended: the visible viewport then contains the first rectangle's top
\* row, and every row of the range when the range is no taller than the
\* viewport.
C5_FocusedRangeVisibleIfFits ==
    FocusedOutsideViewport =>
        /\ last.highlight[1].top \in NowVisibleRows
        /\ Cardinality(FocusedRangeRows) <= ViewHeight
               => FocusedRangeRows \subseteq NowVisibleRows

C5_Witness ==
    /\ FocusedOutsideViewport
    /\ Len(last.highlight) > 1
    /\ Cardinality(FocusedRangeRows) = ViewHeight
    /\ last.highlight[Len(last.highlight)].bottom > PrevVisibleBottom
    /\ scrollOffset # last.prevOffset

\* C6: SetSearchHighlightFocused with an empty sequence leaves the scroll offset
\* unchanged, raises no notification and stores the empty focused highlight.
C6_EmptyFocusNoScroll ==
    (/\ last.op = "SetSearchHighlightFocused"
     /\ last.highlight = <<>>)
    => /\ scrollOffset = last.prevOffset
       /\ last.notes = <<>>
       /\ searchHighlightFocused = <<>>

C6_Witness ==
    /\ last.op = "SetSearchHighlightFocused"
    /\ last.highlight = <<>>
    /\ last.prevOffset < mutableViewportTop
    /\ searchHighlightFocused = <<>>

\* C7: a render pass holding the lock never meets a SetSearchHighlights in
\* progress, and every GetSearchHighlights result of its critical section is the
\* visible part of the one whole set stored at that time (the set from before
\* a waiting mutator's replacement, or the replaced one): never a mixture,
\* never two different results in one critical section.
C7_RenderSeesOneWholeSet ==
    \A t \in RenderThreads :
        pc[t] = "locked" =>
            /\ \A u \in Threads : pc[u] # "writing"
            /\ \A i \in 1..Len(seen[t]) :
                   /\ seen[t][i] = seen[t][1]
                   /\ seen[t][i] = VisibleHighlights(searchHighlights,
                                       GetVisibleViewport(scrollOffset, mutableViewportTop))

C7_Witness ==
    \E t \in RenderThreads :
        /\ pc[t] = "locked"
        /\ Len(seen[t]) > 1
        /\ seen[t][1] # <<>>
        /\ pc[Mutator] = "waiting"

\* C8: at most one thread is between a completed LockConsole and its
\* UnlockConsole; two render readers never hold the lock together.
C8_MutualExclusion ==
    /\ Cardinality({t \in Threads : pc[t] \in {"locked", "writing"}}) <= 1
    /\ Cardinality(readWriteLock) <= 1
    /\ \A t \in Threads : pc[t] \in {"locked", "writing"} <=> t \in readWriteLock

C8_Witness ==
    \E t \in RenderThreads :
        /\ pc[t] = "locked"
        /\ \A u \in Threads \ {t} : pc[u] = "waiting"

\* C9: a thread blocked in LockConsole is never aborted or timed out (it stays
\* waiting until it holds the lock), and under fair scheduling, with every
\* holder unlocking, it eventually acquires the lock.
C9_WaiterAcquires ==
    /\ [][\A t \in Threads :
              pc[t] = "waiting" => pc'[t] \in {"waiting", "locked"}]_vars
    /\ \A t \in Threads : (pc[t] = "waiting") ~> (pc[t] = "locked")

C9_Witness ==
    \E t \in RenderThreads :
        /\ pc[t] = "waiting"
        /\ pc[Mutator] = "locked"
        /\ readWriteLock = {Mutator}

\* The accessors C10 is about: those that read or mutate shared render state.
StateAccessors == PlainAccessors \cup
    {"ScrollToPoints", "SetSearchHighlights", "GetSearchHighlights",
     "SetSearchHighlightFocused"}

\* C10: every accessor of shared render state, called by a thread that does not
\* hold the lock, trips the lock-held assertion.
C10_AccessorsAssertLock ==
    unlockedCall \in StateAccessors => assertFailed

\* What the code does: only the accessors that call _assertLocked() trip it.
AssertingAccessorsTrip ==
    /\ unlockedCall \in StateAccessors /\ AssertsLocked(unlockedCall) => assertFailed
    /\ assertFailed => AssertsLocked(unlockedCall)

\* The interval covers the location: the location lies on the interval's row,
\* at or after its start and before its stop.
Covers(i, location) ==
    /\ i.start.y = location.y
    /\ i.start.x <= location.x
    /\ location.x < i.stop.x

\* How many entries of the sequence f satisfy Test.
Count(f, Test(_)) == Cardinality({k \in 1..Len(f) : Test(f[k])})

\* C11: GetPatternId at a location returns the empty vector when the tree has
\* no intervals or none covers the location, and otherwise one entry per
\* interval covering the half-open cell [location, location + 1) on that row:
\* every id as often as there are covering intervals with that id, and no id
\* of an interval that does not cover the location.
C11_PatternIdsOfCoveringIntervals ==
    last.op = "GetPatternId" =>
        LET location == last.coordStart
            CoversIt(i) == Covers(i, location)
        IN /\ Count(patternIntervalTree, CoversIt) = 0 => last.ret = <<>>
           /\ Len(last.ret) = Count(patternIntervalTree, CoversIt)
           /\ \A v \in PatternIds :
                  LET IsV(w) == w = v
                      CoversWithV(i) == Covers(i, location) /\ i.value = v
                  IN Count(last.ret, IsV) = Count(patternIntervalTree, CoversWithV)

C11_Witness ==
    /\ last.op = "GetPatternId"
    /\ Len(patternIntervalTree) = 2
    /\ Len(last.ret) = 2
    /\ last.ret[1] # last.ret[2]

\* A lookup that leaves out an interval ending just before the location.
C11_WitnessNotCovering ==
    /\ last.op = "GetPatternId"
    /\ Len(last.ret) = 1
    /\ \E k \in 1..Len(patternIntervalTree) :
           /\ patternIntervalTree[k].stop = last.coordStart
           /\ patternIntervalTree[k].value # last.ret[1]

\* The call recorded is a GetSelectionRects or GetSearchHighlights whose try
\* block ended in an exception.
Failed(call) ==
    /\ call.op \in {"GetSelectionRects", "GetSearchHighlights"}
    /\ call.notes = <<"LOG_CAUGHT_EXCEPTION">>

\* C12: a GetSelectionRects or GetSearchHighlights whose computation fails
\* returns the empty sequence (no error, not the part built so far) and leaves
\* the scroll offset, the stored highlights, the focused highlight and the
\* selection unchanged.
C12_FailureReturnsEmpty ==
    /\ [](Failed(last) => last.ret = <<>> /\ ~assertFailed)
    /\ [][(Failed(last') /\ last' # last) =>
              UNCHANGED <<scrollOffset, searchHighlights, searchHighlightFocused,
                          selectionAnchor, selectionEnd>>]_vars

C12_Witness ==
    /\ Failed(last)
    /\ last.op = "GetSelectionRects"
    /\ last.highlight # <<>>
    /\ Len(last.highlight) < Len(SelectionRects(selectionAnchor, selectionEnd))
    /\ VisibleHighlights(searchHighlights,
                         GetVisibleViewport(scrollOffset, mutableViewportTop)) # <<>>
    /\ seen[Mutator] # <<>>
    /\ seen[Mutator][Len(seen[Mutator])] = <<>>

IsAssign(e) == e.ev = "assign"

\* C13: in every _ScrollToPoints call at most one branch assigns the offset.
\* A branch fires exactly when the start row is above the visible top or the
\* end row below the visible bottom, also when the offset it assigns equals the
\* previous one; then TriggerScroll and the scroll-event notification are each
\* raised once, in that order, after the assignment and before the return.
\* Otherwise the call only returns.
C13_OneBranchThenNotifyOnce ==
    last.op = "ScrollToPoints" =>
        LET fires == \/ last.coordStart.y < PrevVisibleTop
                     \/ last.coordEnd.y > PrevVisibleBottom
        IN /\ Count(last.events, IsAssign) <= 1
           /\ fires <=> Count(last.events, IsAssign) = 1
           /\ last.events =
                  IF fires
                  THEN <<Event("assign", scrollOffset),
                         Event("TriggerScroll", scrollOffset),
                         Event("NotifyScrollEvent", scrollOffset),
                         Event("return", scrollOffset)>>
                  ELSE <<Event("return", last.prevOffset)>>
           /\ last.notes = IF fires
                           THEN <<"TriggerScroll", "NotifyScrollEvent">>
                           ELSE <<>>

C13_Witness ==
    /\ last.op = "ScrollToPoints"
    /\ last.coordStart.y = PrevVisibleTop
    /\ last.coordEnd.y > PrevVisibleBottom
    /\ scrollOffset = last.prevOffset
    /\ Count(last.events, IsAssign) = 1

\* The last call was a _ScrollToPoints whose start row was inside the visible
\* viewport and whose end row was below its bottom row.
StartInsideEndBelow ==
    /\ last.op = "ScrollToPoints"
    /\ PrevVisibleTop <= last.coordStart.y
    /\ last.coordStart.y <= PrevVisibleBottom
    /\ last.coordEnd.y > PrevVisibleBottom

\* C14: after a _ScrollToPoints call with the start row already inside the
\* visible viewport and the end row below the visible bottom, the end row lies
\* inside the visible viewport.
C14_EndBroughtIntoView ==
    StartInsideEndBelow => last.coordEnd.y \in NowVisibleRows

\* What the code does instead: it puts the start row at the visible top (or
\* shows the mutable viewport), so the end row is visible only when it is
\* fewer than ViewHeight rows below the start row.
EndVisibleWhenRangeFits ==
    StartInsideEndBelow =>
        /\ last.coordStart.y \in NowVisibleRows
        /\ last.coordEnd.y \in NowVisibleRows
               <=> last.coordEnd.y - last.coordStart.y < ViewHeight

\* C15: SetSearchHighlightFocused with a non-empty highlight changes the scroll
\* offset and raises the notifications exactly as _ScrollToPoints would, from
\* the same state, for the range from the first rectangle's top-left to the
\* last rectangle's bottom-right, whatever the rectangles in between, and it
\* stores the highlight after that scroll.
C15_FocusScrollsLikeScrollToRange ==
    (/\ last.op = "SetSearchHighlightFocused"
     /\ last.highlight # <<>>)
    => LET first == last.highlight[1]
           final == last.highlight[Len(last.highlight)]
           r == ScrollToPoints(last.prevOffset, mutableViewportTop,
                               [x |-> first.left, y |-> first.top],
                               [x |-> final.right, y |-> final.bottom])
       IN /\ scrollOffset = r.scrollOffset
          /\ last.notes = r.notes
          /\ last.events = r.events \o <<Event("store", r.scrollOffset)>>
          /\ searchHighlightFocused = last.highlight

C15_Witness ==
    /\ last.op = "SetSearchHighlightFocused"
    /\ Len(last.highlight) = 3
    /\ last.highlight[1].top < last.highlight[2].top
    /\ last.highlight[2].top < last.highlight[3].top
    /\ last.highlight[1].top >= PrevVisibleTop
    /\ last.highlight[3].bottom > PrevVisibleBottom
    /\ scrollOffset # last.prevOffset
    /\ last.notes # <<>>

\* C16: GetSearchHighlightFocused returns the stored focused highlight, and the
\* stored focused highlight is at all times the sequence handed to the most
\* recent SetSearchHighlightFocused (same rectangles, same order, empty if it
\* was empty), whether or not that call scrolled: each such call stores its
\* argument, and no SetSearchHighlights, _ScrollToPoints or query changes it.
C16_FocusedReadsBackLastSet ==
    /\ [](last.op = "GetSearchHighlightFocused" => last.ret = searchHighlightFocused)
    /\ [][IF last'.op = "SetSearchHighlightFocused" /\ last' # last
          THEN searchHighlightFocused' = last'.highlight
          ELSE searchHighlightFocused' = searchHighlightFocused]_vars

\* A focused highlight of two lines, set without a scroll, read back after the
\* highlights were replaced and the viewport scrolled.
C16_Witness ==
    /\ last.op = "GetSearchHighlightFocused"
    /\ Len(last.ret) = 2
    /\ last.ret[1] # last.ret[2]
    /\ searchHighlights # <<>>
    /\ FocusScroll(scrollOffset, mutableViewportTop, last.ret).notes # <<>>

\* C17: SelectNewRegion first scrolls as _ScrollToPoints(start, end) does, and
\* only then hands SetSelectionAnchor the point (start.x, start.row - newOffset)
\* and SetSelectionEnd the point (end.x, end.row - newOffset), newOffset being
\* the scroll offset after the scroll step; the columns pass through unchanged.
C17_SelectionRelativeToNewOffset ==
    last.op = "SelectNewRegion" =>
        LET r == ScrollToPoints(last.prevOffset, mutableViewportTop,
                                last.coordStart, last.coordEnd)
        IN /\ scrollOffset = r.scrollOffset
           /\ last.notes = r.notes
           /\ selectionAnchor = [x |-> last.coordStart.x,
                                 y |-> last.coordStart.y - scrollOffset]
           /\ selectionEnd = [x |-> last.coordEnd.x,
                              y |-> last.coordEnd.y - scrollOffset]
           /\ last.events = r.events
                             \o <<Event("SetSelectionAnchor", scrollOffset),
                                  Event("SetSelectionEnd", scrollOffset)>>

C17_Witness ==
    /\ last.op = "SelectNewRegion"
    /\ scrollOffset # last.prevOffset
    /\ last.prevOffset > 0
    /\ scrollOffset > 0
    /\ last.coordStart.x > last.coordEnd.x
    /\ last.coordStart.y < last.coordEnd.y
    /\ selectionAnchor.y = 0

\* The last call went through _ScrollToPoints: its start and end rows.
Scrolled ==
    \/ last.op \in {"ScrollToPoints", "SelectNewRegion"}
    \/ last.op = "SetSearchHighlightFocused" /\ last.highlight # <<>>

LastStartRow ==
    IF last.op = "SetSearchHighlightFocused"
    THEN last.highlight[1].top
    ELSE last.coordStart.y

LastEndRow ==
    IF last.op = "SetSearchHighlightFocused"
    THEN last.highlight[Len(last.highlight)].bottom
    ELSE last.coordEnd.y

\* The last call took the below-the-viewport branch of _ScrollToPoints.
BelowBranchFired ==
    /\ Scrolled
    /\ LastStartRow >= PrevVisibleTop
    /\ LastEndRow > PrevVisibleBottom

\* C18: from a scroll offset within [0, viewStartRow], after any sequence of
\* _ScrollToPoints, SetSearchHighlightFocused and SelectNewRegion calls with
\* start rows >= 0 the scroll offset is within [0, viewStartRow]: the visible
\* top is never above row 0 nor below the mutable viewport's top, and the
\* below-the-viewport branch never increases the offset.
C18_OffsetWithinScrollback ==
    /\ 0 <= scrollOffset
    /\ scrollOffset <= ViewStartIndex(mutableViewportTop)
    /\ 0 <= Top(GetViewport(scrollOffset, mutableViewportTop))
    /\ Top(GetViewport(scrollOffset, mutableViewportTop)) <= mutableViewportTop
    /\ BelowBranchFired => scrollOffset <= last.prevOffset

C18_Witness ==
    /\ last.op = "ScrollToPoints"
    /\ BelowBranchFired
    /\ scrollOffset < last.prevOffset
    /\ scrollOffset > 0
    /\ searchHighlightFocused # <<>>
    /\ selectionAnchor # NoPoint

\* C19: a _ScrollToPoints call that repeats the call before it, same start and
\* end and nothing changed in between, leaves the scroll offset where the
\* first call put it and returns that same value, also for a range taller than
\* the viewport, which never becomes fully visible.
C19_RepeatedScrollKeepsOffset ==
    (/\ last.op = "ScrollToPoints"
     /\ last.repeat)
    => /\ scrollOffset = last.prevOffset
       /\ last.ret = last.prevOffset

C19_Witness ==
    /\ last.op = "ScrollToPoints"
    /\ last.repeat
    /\ last.coordEnd.y - last.coordStart.y >= ViewHeight
    /\ last.notes # <<>>
    /\ last.coordEnd.y \notin NowVisibleRows

====
